---- MODULE Spec2Model ----
(***************************************************************************)
(* A model of badlngenerics (src/main.go, lines 1-217): for every input    *)
(* path main indexes the declared functions of the source file             *)
(* (getLineRanges), builds it, reads the subprogram records of the DWARF   *)
(* data into PC ranges (getPCRanges), and walks the line tables, printing  *)
(* every entry whose line lies outside the function that owns its address  *)
(* (checkLines, getFunc).                                                  *)
(*                                                                         *)
(* Strings are sequences of tokens (identifiers and single punctuation    *)
(* characters).  "[" and "]" are tokens of their own, so strings.Index and *)
(* strings.LastIndex on the bytes and on the tokens pick the same          *)
(* brackets.                                                               *)
(***************************************************************************)
EXTENDS Integers, Sequences, FiniteSets, TLC

\* Bounds of the model.
MaxArgs == 2        \* number of input paths on the command line
MaxAddr == 2        \* PC addresses are 0..MaxAddr
MaxLine == 5        \* reported line numbers are 1..MaxLine
MaxRecs == 2        \* subprogram records drawn per debug info
MaxEntries == 2     \* line-table entries drawn per compile unit

VARIABLES
  args,        \* os.Args[1:], each path standing for what the collaborators return for it
  i,           \* index into args of the input being processed (main's loop)
  pc,          \* main's position
  funcs,       \* the map name -> *Func of the current input
  funcRanges,  \* the slice returned by getPCRanges for the current input
  rdr,         \* checkLines: number of DWARF entries its reader has returned
  ln,          \* checkLines: number of line entries the line reader has returned
  out,         \* standard output: the violation lines printed, per input
  diag,        \* the "error compiling" messages printed, as input indices
  seen,        \* history: the line entries decoded so far for the current input
  log,         \* history: the stages invoked, as <<input, stage>>
  sortMemo     \* the order sort.Slice left each slice it was given in

vars == <<args, i, pc, funcs, funcRanges, rdr, ln, out, diag, seen, log, sortMemo>>

----------------------------------------------------------------------------
\* Data

\* const onlyStmt = false
onlyStmt == FALSE

\* type Func struct { Name; startLine, endLine }.  id stands for the pointer:
\* the index of the declaration whose visit allocated the struct.
Func(id, name, s, e) == [id |-> id, Name |-> name, startLine |-> s, endLine |-> e]

\* A nil *Func.
NilFunc == Func(0, <<>>, 0, 0)

\* type FuncRange struct { Rng [2]uint64; Fn *Func }
FuncRange(low, high, fn) == [Rng |-> <<low, high>>, Fn |-> fn]

\* An *ast.FuncDecl: its name, the receiver's type expression as printed
\* (<<>> when n.Recv is nil) and the lines of n.Pos() and n.End().
FuncDecl(name, recv, s, e) == [name |-> name, recv |-> recv, s |-> s, e |-> e]

\* A DWARF entry of tag TagSubprogram; okname, oklow and okhigh are the
\* results of the three type assertions on its attributes.
Subprogram(okname, name, oklow, low, okhigh, high) ==
  [tag |-> "subprogram", okname |-> okname, name |-> name,
   oklow |-> oklow, low |-> low, okhigh |-> okhigh, high |-> high]

\* A DWARF entry of tag TagCompileUnit: lrErr says dw.LineReader fails,
\* lines is the line table, and lnErrAt > 0 is the call of lnrdr.Next that
\* returns an error other than io.EOF (0: none does).
CompileUnit(lrErr, lines, lnErrAt) ==
  [tag |-> "compile_unit", lrErr |-> lrErr, lines |-> lines, lnErrAt |-> lnErrAt]

\* A DWARF entry of any other tag.
OtherEntry == [tag |-> "other"]

\* A dwarf.LineEntry; File is the file name as its path components.
LineEntry(addr, file, line, stmt) ==
  [Address |-> addr, File |-> file, Line |-> line, IsStmt |-> stmt]

\* What the collaborators return for one input path: the parser (parse,
\* decls), the build (build), file.DWARF() (dwarfErr) and the DWARF reader
\* (entries; rdrErrAt > 0 is the call of rdr.Next that returns an error).
InputFile(parse, decls, build, dwarfErr, entries, rdrErrAt) ==
  [parse |-> parse, decls |-> decls, build |-> build, dwarfErr |-> dwarfErr,
   entries |-> entries, rdrErrAt |-> rdrErrAt]

----------------------------------------------------------------------------
\* Pure functions

\* strings.Index(s, c): the 0-based index of the first c, or -1.
Index(s, c) ==
  IF \E k \in 1..Len(s) : s[k] = c
  THEN (CHOOSE k \in 1..Len(s) : s[k] = c /\ \A m \in 1..(k-1) : s[m] # c) - 1
  ELSE -1

\* strings.LastIndex(s, c): the 0-based index of the last c, or -1.
LastIndex(s, c) ==
  IF \E k \in 1..Len(s) : s[k] = c
  THEN (CHOOSE k \in 1..Len(s) : s[k] = c /\ \A m \in (k+1)..Len(s) : s[m] # c) - 1
  ELSE -1

\* A bug the stripping could have: cut from the first "[" to the first "]".
withoutTypeParamsFirstClose(in) ==
  LET a == Index(in, "[")
      b == Index(in, "]")
  IN IF a >= 0 /\ b >= 0 /\ b > a
     THEN SubSeq(in, 1, a) \o SubSeq(in, b + 2, Len(in))
     ELSE in

\* A bug the stripping could have: keep the brackets' text.
withoutTypeParamsKeep(in) == in

withoutTypeParams(in) ==
  LET a == Index(in, "[")
      b == LastIndex(in, "]")
  IN IF a >= 0 /\ b >= 0 /\ b > a
     THEN SubSeq(in, 1, a) \o SubSeq(in, b + 2, Len(in))
     ELSE in

\* The key and Name getLineRanges gives a declaration.
DeclName(d) ==
  <<"main", ".">> \o
  (IF d.recv # <<>>
   THEN <<"(">> \o withoutTypeParams(d.recv) \o <<")", ".">> \o <<d.name>>
   ELSE <<d.name>>)

\* make(map[string]*Func)
NewMap == << >>

\* The map m0 after ast.Inspect has visited the first n declarations: a
\* later declaration of the same name overwrites the earlier one.
RECURSIVE IndexDecls(_, _, _)
IndexDecls(m0, decls, n) ==
  IF n = 0 THEN m0
  ELSE LET m == IndexDecls(m0, decls, n - 1)
           d == decls[n]
           k == DeclName(d)
       IN [x \in (DOMAIN m) \cup {k} |->
             IF x = k THEN Func(n, k, d.s, d.e) ELSE m[x]]

\* funcs[name]: nil when the key is absent.
Lookup(m, name) == IF name \in DOMAIN m THEN m[name] ELSE NilFunc

\* The slice r of getPCRanges after the first n entries of the reader.
RECURSIVE CollectRanges(_, _, _)
CollectRanges(entries, m, n) ==
  IF n = 0 THEN << >>
  ELSE LET r == CollectRanges(entries, m, n - 1)
           e == entries[n]
       IN IF e.tag # "subprogram" THEN r
          ELSE IF ~e.okname \/ ~e.oklow \/ ~e.okhigh THEN r
          ELSE LET fn == Lookup(m, withoutTypeParams(e.name))
               IN IF fn = NilFunc THEN r
                  ELSE Append(r, FuncRange(e.low, e.high, fn))

\* The comparison handed to sort.Slice.
Less(a, b) == a.Rng[1] < b.Rng[1]

\* The orders sort.Slice may leave r in: the permutations of r in which no
\* element is less than one before it.
SortedOrders(r) ==
  LET n == Len(r)
      P == {p \in [1..n -> 1..n] : \A x, y \in 1..n : x # y => p[x] # p[y]}
  IN {[k \in 1..n |-> r[p[k]]] : p \in {q \in P :
        \A x, y \in 1..n : x < y => ~Less(r[q[y]], r[q[x]])}}

\* A sort whose order of equal elements changes from call to call.
SortSliceUnrepeatable(r, memo) == SortedOrders(r)

\* sort.Slice(r, less): not stable, but a function of its input: what it
\* did to a slice once it does to the same slice again.
SortSlice(r, memo) ==
  IF \E p \in memo : p[1] = r
  THEN {p[2] : p \in {q \in memo : q[1] = r}}
  ELSE SortedOrders(r)

\* A bug the search could have: the range's high bound taken as inclusive.
getFuncInclusiveHigh(addr, ranges) ==
  IF \E k \in 1..Len(ranges) : ranges[k].Rng[1] <= addr /\ addr <= ranges[k].Rng[2]
  THEN ranges[CHOOSE k \in 1..Len(ranges) :
         /\ ranges[k].Rng[1] <= addr /\ addr <= ranges[k].Rng[2]
         /\ \A m \in 1..(k-1) : ~(ranges[m].Rng[1] <= addr /\ addr <= ranges[m].Rng[2])].Fn
  ELSE NilFunc

getFunc(addr, ranges) ==
  IF \E k \in 1..Len(ranges) : ranges[k].Rng[1] <= addr /\ addr < ranges[k].Rng[2]
  THEN ranges[CHOOSE k \in 1..Len(ranges) :
         /\ ranges[k].Rng[1] <= addr /\ addr < ranges[k].Rng[2]
         /\ \A m \in 1..(k-1) : ~(ranges[m].Rng[1] <= addr /\ addr < ranges[m].Rng[2])].Fn
  ELSE NilFunc

\* filepath.Base of a non-empty path: its last component.
Base(path) == path[Len(path)]

\* The line printed for entry e owned by fn.
Violation(e, fn) ==
  [file |-> Base(e.File), line |-> e.Line, addr |-> e.Address, fn |-> fn.Name]

\* A bug the test could have: the bounds of the span taken as exclusive.
OutsideSpanExclusive(e, fn) == e.Line <= fn.startLine \/ e.Line >= fn.endLine

OutsideSpan(e, fn) == e.Line < fn.startLine \/ e.Line > fn.endLine

----------------------------------------------------------------------------
\* The state machine: main's loop over the input paths

cur == args[i]

Stage(name) == log' = Append(log, <<i, name>>)

\* A panic of must(err): the process ends with nothing recovered.
Panic(stage) ==
  /\ pc' = "panic"
  /\ Stage(stage)
  /\ UNCHANGED <<args, i, funcs, funcRanges, rdr, ln, out, diag, seen, sortMemo>>

\* The end of one iteration of main's loop (continue, or the end of its
\* body): the next path, with the locals of the iteration gone.
NextInput ==
  /\ i' = i + 1
  /\ pc' = IF i < Len(args) THEN "getLineRanges" ELSE "done"
  /\ funcs' = NewMap
  /\ funcRanges' = << >>
  /\ rdr' = 0
  /\ ln' = 0
  /\ seen' = << >>

\* A bug: a parse error skips the input instead of ending the run.
ParseSkip ==
  /\ pc = "getLineRanges"
  /\ cur.parse = "err"
  /\ Stage("getLineRanges")
  /\ NextInput
  /\ UNCHANGED <<args, out, diag, sortMemo>>

\* getLineRanges: parser.ParseFile fails and must panics.
ParsePanic ==
  /\ pc = "getLineRanges"
  /\ cur.parse = "err"
  /\ Panic("getLineRanges")

\* getLineRanges on a file that parses.
GetLineRanges ==
  /\ pc = "getLineRanges"
  /\ cur.parse = "ok"
  /\ funcs' = IndexDecls(NewMap, cur.decls, Len(cur.decls))
  /\ pc' = "build"
  /\ Stage("getLineRanges")
  /\ UNCHANGED <<args, i, funcRanges, rdr, ln, out, diag, seen, sortMemo>>

\* A bug: a failed build ends the process (os.Exit) instead of continuing.
BuildFailsExit ==
  /\ pc = "build"
  /\ cur.build # "ok"
  /\ pc' = "exit"
  /\ Stage("build")
  /\ diag' = IF cur.build = "compile_error" THEN Append(diag, i) ELSE diag
  /\ UNCHANGED <<args, i, funcs, funcRanges, rdr, ln, out, seen, sortMemo>>

\* build returns nil: the compiler failed (its output is printed), or the
\* artifact opens as none of ELF, Mach-O and PE.  main continues.
BuildFails ==
  /\ pc = "build"
  /\ cur.build # "ok"
  /\ Stage("build")
  /\ diag' = IF cur.build = "compile_error" THEN Append(diag, i) ELSE diag
  /\ NextInput
  /\ UNCHANGED <<args, out, sortMemo>>

\* build returns the opened artifact.
BuildOK ==
  /\ pc = "build"
  /\ cur.build = "ok"
  /\ pc' = "DWARF"
  /\ Stage("build")
  /\ UNCHANGED <<args, i, funcs, funcRanges, rdr, ln, out, diag, seen, sortMemo>>

\* file.DWARF() fails and must panics.
DWARFPanic ==
  /\ pc = "DWARF"
  /\ cur.dwarfErr
  /\ Panic("DWARF")

\* file.DWARF() returns the data.
DWARFOK ==
  /\ pc = "DWARF"
  /\ ~cur.dwarfErr
  /\ pc' = "getPCRanges"
  /\ Stage("DWARF")
  /\ UNCHANGED <<args, i, funcs, funcRanges, rdr, ln, out, diag, seen, sortMemo>>

\* getPCRanges: rdr.Next fails at some entry and must panics.
GetPCRangesPanic ==
  /\ pc = "getPCRanges"
  /\ cur.rdrErrAt > 0
  /\ Panic("getPCRanges")

\* getPCRanges: the whole reader is walked, the records collected and the
\* slice sorted by low address.
GetPCRanges ==
  /\ pc = "getPCRanges"
  /\ cur.rdrErrAt = 0
  /\ LET r == CollectRanges(cur.entries, funcs, Len(cur.entries))
     IN \E sorted \in SortSlice(r, sortMemo) :
          /\ funcRanges' = sorted
          /\ sortMemo' = sortMemo \cup {<<r, sorted>>}
  /\ pc' = "checkLines"
  /\ Stage("getPCRanges")
  /\ UNCHANGED <<args, i, funcs, rdr, ln, out, diag, seen>>

\* checkLines is called and makes its reader.  The reader walks the entries
\* getPCRanges has walked to their end, so its rdr.Next returns no error
\* here.
CheckLinesStart ==
  /\ pc = "checkLines"
  /\ pc' = "units"
  /\ rdr' = 0
  /\ Stage("checkLines")
  /\ UNCHANGED <<args, i, funcs, funcRanges, ln, out, diag, seen, sortMemo>>

\* checkLines: rdr.Next returns an entry that is no compile unit.
CheckLinesSkipEntry ==
  /\ pc = "units"
  /\ rdr < Len(cur.entries)
  /\ cur.entries[rdr + 1].tag # "compile_unit"
  /\ rdr' = rdr + 1
  /\ UNCHANGED <<args, i, pc, funcs, funcRanges, ln, out, diag, seen, log, sortMemo>>

\* checkLines: dw.LineReader fails on a compile unit and must panics.
LineReaderPanic ==
  /\ pc = "units"
  /\ rdr < Len(cur.entries)
  /\ cur.entries[rdr + 1].tag = "compile_unit"
  /\ cur.entries[rdr + 1].lrErr
  /\ pc' = "panic"
  /\ UNCHANGED <<args, i, funcs, funcRanges, rdr, ln, out, diag, seen, log, sortMemo>>

\* checkLines: a compile unit's line reader is made.
CheckLinesEnterUnit ==
  /\ pc = "units"
  /\ rdr < Len(cur.entries)
  /\ cur.entries[rdr + 1].tag = "compile_unit"
  /\ ~cur.entries[rdr + 1].lrErr
  /\ rdr' = rdr + 1
  /\ ln' = 0
  /\ pc' = "lines"
  /\ UNCHANGED <<args, i, funcs, funcRanges, out, diag, seen, log, sortMemo>>

\* checkLines: rdr.Next returns nil, checkLines returns, main closes the
\* file and goes on to the next path.
CheckLinesReturn ==
  /\ pc = "units"
  /\ rdr = Len(cur.entries)
  /\ NextInput
  /\ UNCHANGED <<args, out, diag, log, sortMemo>>

unit == cur.entries[rdr]

\* checkLines: lnrdr.Next fails with an error that is not io.EOF and must
\* panics.
LineNextPanic ==
  /\ pc = "lines"
  /\ unit.lnErrAt = ln + 1
  /\ pc' = "panic"
  /\ UNCHANGED <<args, i, funcs, funcRanges, rdr, ln, out, diag, seen, log, sortMemo>>

\* checkLines: lnrdr.Next returns io.EOF.
LineEOF ==
  /\ pc = "lines"
  /\ unit.lnErrAt # ln + 1
  /\ ln = Len(unit.lines)
  /\ pc' = "units"
  /\ UNCHANGED <<args, i, funcs, funcRanges, rdr, ln, out, diag, seen, log, sortMemo>>

\* A bug: the lines go to a buffer that a panic never flushes.
EmitBuffered(o, k, v) == o

\* fmt.Printf of one violation: written as soon as it is found.
Emit(o, k, v) == [o EXCEPT ![k] = Append(@, v)]

\* checkLines: lnrdr.Next returns an entry, which is checked.
CheckLine ==
  /\ pc = "lines"
  /\ unit.lnErrAt # ln + 1
  /\ ln < Len(unit.lines)
  /\ LET lne == unit.lines[ln + 1]
         fn  == getFunc(lne.Address, funcRanges)
     IN /\ seen' = Append(seen, lne)
        /\ out' = IF onlyStmt /\ ~lne.IsStmt THEN out
                  ELSE IF fn = NilFunc THEN out
                  ELSE IF OutsideSpan(lne, fn) THEN Emit(out, i, Violation(lne, fn))
                  ELSE out
  /\ ln' = ln + 1
  /\ UNCHANGED <<args, i, pc, funcs, funcRanges, rdr, diag, log, sortMemo>>

Next ==
  \/ ParsePanic
  \/ GetLineRanges
  \/ BuildFails
  \/ BuildOK
  \/ DWARFPanic
  \/ DWARFOK
  \/ GetPCRangesPanic
  \/ GetPCRanges
  \/ CheckLinesStart
  \/ CheckLinesSkipEntry
  \/ LineReaderPanic
  \/ CheckLinesEnterUnit
  \/ CheckLinesReturn
  \/ LineNextPanic
  \/ LineEOF
  \/ CheckLine

\* The state main starts in, given the command line.
Start(a) ==
  /\ args = a
  /\ i = 1
  /\ pc = IF Len(a) = 0 THEN "done" ELSE "getLineRanges"
  /\ funcs = NewMap
  /\ funcRanges = << >>
  /\ rdr = 0
  /\ ln = 0
  /\ out = [k \in 1..Len(a) |-> << >>]
  /\ diag = << >>
  /\ seen = << >>
  /\ log = << >>
  /\ sortMemo = {}

----------------------------------------------------------------------------
\* Inputs

Addrs == 0..MaxAddr
Lines == 1..MaxLine

\* Names of the subprogram records, as the Go linker writes them, and
\* "Box[int].Get", a name without package and receiver parentheses.
DwAdd        == <<"main", ".", "Add">>
DwBaseInt    == <<"main", ".", "Base", "[", "int", "]">>
DwBaseString == <<"main", ".", "Base", "[", "string", "]">>
DwBaseNested == <<"main", ".", "Base", "[", "Pair", "[", "int", "]", "]">>
DwGetInt     == <<"main", ".", "(", "*", "Box", "[", "int", "]", ")", ".", "Get">>
DwBoxGet     == <<"Box", "[", "int", "]", ".", "Get">>
DwInit       == <<"main", ".", "init">>

\* Keys of the function index.
KeyAdd  == <<"main", ".", "Add">>
KeyBase == <<"main", ".", "Base">>
KeyGet  == <<"main", ".", "(", "*", "Box", ")", ".", "Get">>

\* The source file: func Add on lines 2-3, the generic func Base[T] on
\* line 4 and the method func (t *Box[T]) Get() T on line 5.
Source ==
  << FuncDecl("Add", << >>, 2, 3),
     FuncDecl("Base", << >>, 4, 4),
     FuncDecl("Get", <<"*", "Box", "[", "T", "]">>, 5, 5) >>

\* The same, with a second declaration named Add further down.
SourceRedeclared == Append(Source, FuncDecl("Add", << >>, 1, 1))

SrcPath == <<"tmp", "file.go">>

\* A subprogram record with its three attributes.
Sub(name, low, high) == Subprogram(TRUE, name, TRUE, low, TRUE, high)

\* A line table with one entry per address, all on line 1, which is
\* inside no function of Source.
RECURSIVE Sweep(_)
Sweep(n) ==
  IF n < 0 THEN << >>
  ELSE Append(Sweep(n - 1), LineEntry(n, SrcPath, 1, TRUE))

\* The sequences over S of length at most n.
SeqsUpTo(S, n) == UNION {[1..k -> S] : k \in 0..n}

\* An input whose stages all succeed, with the given declarations and
\* DWARF entries.
Good(decls, entries) == InputFile("ok", decls, "ok", FALSE, entries, 0)

\* Inputs that fail at each place an input can fail.
FileParseErr   == InputFile("err", << >>, "ok", FALSE, << >>, 0)
FileCompileErr == InputFile("ok", Source, "compile_error", FALSE, << >>, 0)
FileBadFormat  == InputFile("ok", Source, "bad_format", FALSE, << >>, 0)
FileDwarfErr   == InputFile("ok", Source, "ok", TRUE, << >>, 0)
FileReaderErr  ==
  InputFile("ok", Source, "ok", FALSE,
            <<CompileUnit(FALSE, Sweep(MaxAddr), 0), Sub(DwAdd, 0, 1)>>, 2)
FileLineReaderErr ==
  Good(Source, <<CompileUnit(FALSE, Sweep(0), 0), Sub(DwAdd, 0, 1), OtherEntry,
                 CompileUnit(TRUE, << >>, 0)>>)
FileLineErr ==
  Good(Source, <<CompileUnit(FALSE, Sweep(MaxAddr), 2), Sub(DwAdd, 0, MaxAddr)>>)
FileLineErrFirst ==
  Good(Source, <<CompileUnit(FALSE, Sweep(MaxAddr), 1), Sub(DwAdd, 0, MaxAddr)>>)

FailingFiles ==
  {FileParseErr, FileCompileErr, FileBadFormat, FileDwarfErr, FileReaderErr,
   FileLineReaderErr, FileLineErr, FileLineErrFirst}

\* Two records with the same low address owned by different functions, and
\* entries on line 2: inside Add, outside Base.
FileTie ==
  Good(Source, <<CompileUnit(FALSE, <<LineEntry(0, SrcPath, 2, TRUE),
                                      LineEntry(1, SrcPath, 2, FALSE)>>, 0),
                 Sub(DwBaseInt, 0, 2), Sub(DwAdd, 0, 2)>>)

\* The same records, read in the other order.
FileTieReversed ==
  Good(Source, <<CompileUnit(FALSE, <<LineEntry(0, SrcPath, 2, TRUE),
                                      LineEntry(1, SrcPath, 2, FALSE)>>, 0),
                 Sub(DwAdd, 0, 2), Sub(DwBaseInt, 0, 2)>>)

\* Overlapping ranges with different low addresses.
FileOverlap ==
  Good(Source, <<CompileUnit(FALSE, Sweep(MaxAddr), 0),
                 Sub(DwGetInt, 1, MaxAddr + 1), Sub(DwAdd, 0, MaxAddr)>>)

\* No entry outside its function.
FileClean ==
  Good(Source, <<CompileUnit(FALSE, <<LineEntry(0, SrcPath, 2, TRUE),
                                      LineEntry(1, SrcPath, 4, TRUE)>>, 0),
                 Sub(DwAdd, 0, 1), Sub(DwBaseString, 1, 2)>>)

\* The files of the runs over several paths.
MainFiles == FailingFiles \cup {FileTie, FileTieReversed, FileOverlap, FileClean}

\* Runs over several paths.
Init == \E a \in SeqsUpTo(MainFiles, MaxArgs) : Start(a)

Spec == Init /\ [][Next]_vars

\* One path whose subprogram records carry any range at all, two functions
\* owning them, and a line table that sweeps the addresses.
RangeRecords == {Sub(n, l, h) : n \in {DwAdd, DwBaseInt}, l \in Addrs, h \in Addrs}

RangeFiles ==
  {Good(Source, <<CompileUnit(FALSE, Sweep(MaxAddr), 0)>> \o subs) :
     subs \in SeqsUpTo(RangeRecords, MaxRecs)}

InitRanges == \E f \in RangeFiles \cup FailingFiles : Start(<<f>>)

SpecRanges == InitRanges /\ [][Next]_vars

\* One path whose subprogram records carry any name, with or without its
\* attributes, on ranges that follow one another: the k-th record is on
\* [k - 1, k).
NameKinds ==
  {<<TRUE, n, TRUE, TRUE>> :
     n \in {DwAdd, DwBaseInt, DwBaseString, DwBaseNested, DwGetInt, DwBoxGet, DwInit}}
  \cup {<<FALSE, << >>, TRUE, TRUE>>, <<TRUE, DwAdd, FALSE, TRUE>>,
        <<TRUE, DwAdd, TRUE, FALSE>>}

NameRecord(kind, k) ==
  Subprogram(kind[1], kind[2], kind[3], IF kind[3] THEN k - 1 ELSE 0,
             kind[4], IF kind[4] THEN k ELSE 0)

NameFiles ==
  {Good(src, <<CompileUnit(FALSE, Sweep(MaxRecs), 0)>>
             \o [k \in DOMAIN q |-> NameRecord(q[k], k)]) :
     src \in {Source, SourceRedeclared}, q \in SeqsUpTo(NameKinds, MaxRecs)}

InitNames == \E f \in NameFiles \cup FailingFiles : Start(<<f>>)

SpecNames == InitNames /\ [][Next]_vars

\* One path with Add on [0, 1) and Base on [1, 2), and any line table, read
\* to its end or failing at its last entry.
CheckEntries ==
  {LineEntry(a, SrcPath, l, TRUE) : a \in Addrs, l \in Lines}
  \cup {LineEntry(1, SrcPath, l, FALSE) : l \in Lines}

CheckTables ==
  {<<lines, e>> : lines \in SeqsUpTo(CheckEntries, MaxEntries), e \in 0..MaxEntries}

CheckFiles ==
  {Good(Source, <<Sub(DwAdd, 0, 1), CompileUnit(FALSE, t[1], t[2]),
                  Sub(DwBaseInt, 1, 2)>>) :
     t \in {u \in CheckTables : u[2] \in {0, Len(u[1])}}}

InitCheck == \E f \in CheckFiles \cup FailingFiles : Start(<<f>>)

SpecCheck == InitCheck /\ [][Next]_vars

----------------------------------------------------------------------------
\* Properties

\* checkLines is walking, or has died walking, the line tables of input i.
Checking == pc \in {"units", "lines"} \/ (pc = "panic" /\ log[Len(log)][2] = "checkLines")

\* The ranges that contain an address.
Containing(addr) ==
  {k \in 1..Len(funcRanges) :
     funcRanges[k].Rng[1] <= addr /\ addr < funcRanges[k].Rng[2]}

\* The lines the specification expects for the entries es: one for each entry whose
\* address has an owner and whose line is below the owner's first line or
\* above its last.
RECURSIVE Expected(_)
Expected(es) ==
  IF es = << >> THEN << >>
  ELSE LET e    == es[Len(es)]
           rest == Expected(SubSeq(es, 1, Len(es) - 1))
           fn   == getFunc(e.Address, funcRanges)
       IN IF fn # NilFunc /\ (e.Line < fn.startLine \/ e.Line > fn.endLine)
          THEN Append(rest, [file |-> "file.go", line |-> e.Line,
                             addr |-> e.Address, fn |-> fn.Name])
          ELSE rest

\* C1: while checkLines walks the line table, the lines printed are, in
\* order, one line for each decoded entry whose address getFunc gives an
\* owner and whose line is strictly below the owner's start line or strictly
\* above its end line, carrying the entry's line and address and the owner's
\* name; an entry on the start line, on the end line or between them prints
\* nothing.
C1_ViolationIffOutsideSpan ==
  (pc \in {"units", "lines"}) =>
    /\ out[i] = Expected(seen)
    /\ \A k \in 1..Len(seen) :
         LET fn == getFunc(seen[k].Address, funcRanges)
         IN (fn # NilFunc /\ seen[k].Line >= fn.startLine /\ seen[k].Line <= fn.endLine)
            => \A v \in 1..Len(out[i]) :
                 ~(out[i][v].addr = seen[k].Address /\ out[i][v].line = seen[k].Line)

\* C1 witness: entries on the start line and on the end line of their owner
\* were decoded and printed nothing, and one above the end line printed its
\* line.
C1_Witness ==
  /\ pc = "units"
  /\ Len(seen) = 2
  /\ \E fn \in {funcRanges[k].Fn : k \in 1..Len(funcRanges)} :
       /\ fn.startLine < fn.endLine
       /\ getFunc(seen[1].Address, funcRanges) = fn
       /\ getFunc(seen[2].Address, funcRanges) = fn
       /\ seen[1].Line = fn.endLine
       /\ seen[2].Line = fn.endLine + 1
       /\ out[i] = <<[file |-> "file.go", line |-> fn.endLine + 1,
                      addr |-> seen[2].Address, fn |-> KeyAdd]>>

\* C2: every line printed carries an address that some range contains and
\* the name of a function owning such a range, so an entry whose address is
\* below every low bound or at or above every high bound prints nothing.
C2_UnownedNeverReported ==
  Checking =>
    /\ \A v \in 1..Len(out[i]) :
         \E k \in Containing(out[i][v].addr) : funcRanges[k].Fn.Name = out[i][v].fn
    /\ \A k \in 1..Len(seen) :
         Containing(seen[k].Address) = {}
         => \A v \in 1..Len(out[i]) : out[i][v].addr # seen[k].Address

\* C2 witness: an entry whose address is the high bound of a range and in
\* no range was decoded, on a line outside that range's function, and
\* nothing was printed for it.
C2_Witness ==
  /\ pc = "units"
  /\ \E k \in 1..Len(seen), r \in 1..Len(funcRanges) :
       /\ funcRanges[r].Rng[1] < funcRanges[r].Rng[2]
       /\ seen[k].Address = funcRanges[r].Rng[2]
       /\ Containing(seen[k].Address) = {}
       /\ seen[k].Line < funcRanges[r].Fn.startLine
       /\ \A v \in 1..Len(out[i]) : out[i][v].addr # seen[k].Address
       /\ out[i] # << >>

\* C3: for an address some range contains, getFunc returns the function of
\* the containing range with the smallest low address, whichever order the
\* records were read in: every containing range with that low address has
\* the function returned.
C3_OwnerIsSmallestLow ==
  (pc \in {"checkLines", "units", "lines"}) =>
    \A a \in Addrs :
      \A k \in Containing(a) :
        (\A m \in Containing(a) : funcRanges[k].Rng[1] <= funcRanges[m].Rng[1])
        => getFunc(a, funcRanges) = funcRanges[k].Fn

\* C6: every range returned by getPCRanges has low < high.
C6_NoDegenerateRange ==
  \A k \in 1..Len(funcRanges) : funcRanges[k].Rng[1] < funcRanges[k].Rng[2]

\* getPCRanges has returned for input i.
Resolved == pc \in {"checkLines", "units", "lines"}

\* The subprogram records of the current input that carry all three
\* attributes and one of the given names.
Records(names) ==
  {k \in 1..Len(cur.entries) :
     /\ cur.entries[k].tag = "subprogram"
     /\ cur.entries[k].okname /\ cur.entries[k].oklow /\ cur.entries[k].okhigh
     /\ cur.entries[k].name \in names}

\* The ranges made from record k.
RangesOf(k) ==
  {r \in 1..Len(funcRanges) :
     funcRanges[r].Rng = <<cur.entries[k].low, cur.entries[k].high>>}

\* The names of the instantiations of Base.
BaseInstances == {DwBaseInt, DwBaseString, DwBaseNested}

\* C4: two records named for different instantiations of Base, on disjoint
\* ranges, give two ranges that reference the one Func indexed for Base, and
\* every line printed for an address in either range names main.Base.
C4_InstantiationsShareFunc ==
  Resolved =>
    \A a, b \in Records(BaseInstances) :
      cur.entries[a].name # cur.entries[b].name =>
        /\ \E ra \in RangesOf(a), rb \in RangesOf(b) :
             /\ ra # rb
             /\ funcRanges[ra].Fn = funcRanges[rb].Fn
             /\ funcRanges[ra].Fn.id = 2
             /\ funcRanges[ra].Fn = funcs[KeyBase]
             /\ funcRanges[ra].Fn.Name = KeyBase
        /\ \A v \in 1..Len(out[i]) :
             (\E k \in {a, b} : /\ cur.entries[k].low <= out[i][v].addr
                                /\ out[i][v].addr < cur.entries[k].high)
             => out[i][v].fn = KeyBase

\* C4 witness: the line table was read to its end with records for Base[int]
\* and Base[string], and an entry of each range was printed against Base.
C4_Witness ==
  /\ pc = "units"
  /\ rdr = Len(cur.entries)
  /\ Records({DwBaseInt}) # {}
  /\ Records({DwBaseString}) # {}
  /\ Len(out[i]) = 2
  /\ out[i][1].fn = KeyBase
  /\ out[i][2].fn = KeyBase

\* The index holds the method of *Box[T] under main.(*Box).Get.
GetIndexed ==
  /\ KeyGet \in DOMAIN funcs
  /\ funcs[KeyGet] = Func(3, KeyGet, 5, 5)

\* C5, as the specification states it: the method is indexed as main.(*Box).Get and a record
\* named Box[int].Get gets a range attached to that function.
C5_BoxGetAttached ==
  Resolved =>
    /\ GetIndexed
    /\ \A k \in Records({DwBoxGet}) :
         \E r \in RangesOf(k) : funcRanges[r].Fn = funcs[KeyGet]

\* C5, amended: the method is indexed as main.(*Box).Get; a record named
\* main.(*Box[int]).Get gets a range attached to that function; a record
\* named Box[int].Get is stripped to Box.Get, which is no key of the index,
\* and gets no range.
C5_QualifiedGetAttached ==
  Resolved =>
    /\ GetIndexed
    /\ \A k \in Records({DwGetInt}) :
         \E r \in RangesOf(k) : funcRanges[r].Fn = funcs[KeyGet]
    /\ \A k \in Records({DwBoxGet}) : RangesOf(k) = {}
    /\ <<"Box", ".", "Get">> \notin DOMAIN funcs

\* C5 witness: records of both names were read and the range of the
\* qualified one is the only range.
C5_Witness ==
  /\ pc = "units"
  /\ Records({DwGetInt}) # {}
  /\ Records({DwBoxGet}) # {}
  /\ Len(funcRanges) = 1
  /\ funcRanges[1].Fn.Name = KeyGet

Fatal(f) ==
  \/ f.parse = "err"
  \/ /\ f.build = "ok"
     /\ \/ f.dwarfErr
        \/ f.rdrErrAt > 0
        \/ \E k \in 1..Len(f.entries) :
             /\ f.entries[k].tag = "compile_unit"
             /\ f.entries[k].lrErr \/ f.entries[k].lnErrAt > 0

\* C8: when build returns nil for input k, nothing is printed for k, the
\* process goes on, and the stage that follows is getLineRanges of input
\* k + 1 (or the end of the run when k is the last input).
C8_BuildFailureSkipsInput ==
  \A x \in 1..Len(log) :
    LET k == log[x][1]
    IN (log[x][2] = "build" /\ args[k].build # "ok") =>
         /\ out[k] = << >>
         /\ x < Len(log) => log[x + 1] = <<k + 1, "getLineRanges">>
         /\ x = Len(log) =>
              /\ i = k + 1
              /\ pc = IF k < Len(args) THEN "getLineRanges" ELSE "done"

\* C8 witness: the first of two inputs failed to build and the second was
\* processed to its end and printed lines.
C8_Witness ==
  /\ pc = "done"
  /\ Len(args) = 2
  /\ args[1].build # "ok"
  /\ out[1] = << >>
  /\ out[2] # << >>

\* C9: an input with a parse error, a DWARF error or a decode error is never
\* got past: the run stops at it, no stage of a later input is invoked and
\* nothing is printed for a later input; and build is never invoked for an
\* input that does not parse.
C9_FatalErrorAbortsRun ==
  /\ \A k \in 1..Len(args) : k < i => ~Fatal(args[k])
  /\ \A x \in 1..Len(log) :
       /\ log[x][1] <= i
       /\ log[x][2] = "build" => args[log[x][1]].parse = "ok"
       /\ (log[x][2] = "getLineRanges" /\ args[log[x][1]].parse = "err")
            => pc = "panic" /\ x = Len(log)
       /\ (log[x][2] = "DWARF" /\ args[log[x][1]].dwarfErr)
            => pc = "panic" /\ x = Len(log)
       /\ (log[x][2] = "getPCRanges" /\ args[log[x][1]].rdrErrAt > 0)
            => pc = "panic" /\ x = Len(log)
  /\ pc = "lines" => unit.lnErrAt \notin 1..ln
  /\ \A k \in 1..Len(args) : k > i => out[k] = << >>

\* C9 witness: the first of two inputs died decoding its line table after
\* printing a line, and the second, which has no error, was never started.
C9_Witness ==
  /\ pc = "panic"
  /\ i = 1
  /\ Len(args) = 2
  /\ out[1] # << >>
  /\ ~Fatal(args[2])
  /\ out[2] = << >>

\* The line entries of the compile units among the first n DWARF entries.
RECURSIVE LinesOfUnits(_, _)
LinesOfUnits(entries, n) ==
  IF n = 0 THEN << >>
  ELSE LinesOfUnits(entries, n - 1) \o
       (IF entries[n].tag = "compile_unit" THEN entries[n].lines ELSE << >>)

\* C10, as the specification states it: when the run has died on input i, nothing was printed
\* for input i.
C10_NothingPrintedOnFatal ==
  pc = "panic" => out[i] = << >>

\* C10, amended: when the run has died on input i before checkLines read a
\* line entry, nothing was printed for input i; when lnrdr.Next failed at
\* an entry, the lines of the entries decoded before it were printed and
\* stay printed, and nothing else.
C10_PrintedBeforeFailureStays ==
  pc = "panic" =>
    IF log[Len(log)][2] # "checkLines" THEN out[i] = << >>
    ELSE IF rdr >= 1 /\ unit.tag = "compile_unit" /\ unit.lnErrAt = ln + 1
         THEN out[i] = Expected(LinesOfUnits(cur.entries, rdr - 1)
                                \o SubSeq(unit.lines, 1, unit.lnErrAt - 1))
         ELSE out[i] = Expected(LinesOfUnits(cur.entries, rdr))

\* C10 witness: lnrdr.Next failed at the second entry and the line of the
\* first entry is on standard output.
C10_Witness ==
  /\ pc = "panic"
  /\ log[Len(log)][2] = "checkLines"
  /\ unit.tag = "compile_unit"
  /\ unit.lnErrAt = 2
  /\ Len(out[i]) = 1
  /\ out[i][1].addr = unit.lines[1].Address

====
